---- MODULE Spec2Model ----
(***************************************************************************)
(* Model of cvat/apps/iam/permissions.py: the Open Policy Agent bridge.    *)
(*                                                                         *)
(*  - PolicyEnforcer (has_permission, has_object_permission,               *)
(*    check_permission) with the evaluators created by the subclasses of   *)
(*    OpenPolicyAgentPermission and the outbound call of __bool__;         *)
(*  - OpenPolicyAgentPermission.filter: the postfix token loop that builds *)
(*    a Q object and applies it to a queryset.                             *)
(*                                                                         *)
(* One request is in progress at a time.  An outbound requests.post is a   *)
(* blocking point: the call is one step, the answer of the policy service  *)
(* another.                                                                *)
(***************************************************************************)
EXTENDS Integers, Sequences, FiniteSets, TLC

\* Longest token sequence the policy service answers with on /filter.
MaxTokens == 3

None == "None"

----------------------------------------------------------------------------
(* The views of the hosting framework: basename, action, detail.           *)

Basenames ==
    {"server", "user", "function", "request", "organization", "membership",
     "task"}

ViewActions ==
    {"annotation_formats", "about", "plugins", "exception", "logs", "share",
     "list", "self", "retrieve", "call", "create", "destroy",
     "partial_update", "delete", "update"}

Views == [basename : Basenames, action : ViewActions, detail : BOOLEAN]

\* request.iam_context['organization']: None or an organization.
Organizations == {None, "org1"}

\* The objects a detail view resolves.
Objects == {"obj1", "obj2"}

----------------------------------------------------------------------------
(* The evaluator classes, in definition order (__subclasses__()).          *)

Subclasses ==
    << "ServerPermission", "UserPermission", "LambdaPermission",
       "OrganizationPermission", "MembershipPermission",
       "InvitationPermission", "CloudStoragePermission", "ProjectPermission",
       "TaskPermission", "JobPermission", "CommentPermission",
       "IssuePermission" >>

OverlappingApplicable(cls, view) ==
    CASE cls = "ServerPermission"       -> view.basename = "server"
      [] cls = "UserPermission"         -> view.basename = "user"
      [] cls = "LambdaPermission"       -> view.basename = "function"
                                           \/ view.basename = "request"
      [] cls = "OrganizationPermission" -> view.basename = "organization"
      [] cls = "MembershipPermission"   -> view.basename = "membership"
                                           \/ view.basename = "organization"
      [] OTHER                          -> FALSE

\* The test of each create(): is the class applicable to the view?
Applicable(cls, view) ==
    CASE cls = "ServerPermission"       -> view.basename = "server"
      [] cls = "UserPermission"         -> view.basename = "user"
      [] cls = "LambdaPermission"       -> view.basename = "function"
                                           \/ view.basename = "request"
      [] cls = "OrganizationPermission" -> view.basename = "organization"
      [] cls = "MembershipPermission"   -> view.basename = "membership"
      [] OTHER                          -> FALSE

\* The scope property of each class: dict.get(..., None).
ServerScope(view) ==
    CASE view.action = "annotation_formats" -> "VIEW"
      [] view.action = "about"              -> "VIEW"
      [] view.action = "plugins"            -> "VIEW"
      [] view.action = "exception"          -> "SEND_EXCEPTION"
      [] view.action = "logs"               -> "SEND_LOGS"
      [] view.action = "share"              -> "LIST_CONTENT"
      [] OTHER                              -> None

UserScope(view) ==
    CASE view.action = "list"     -> "LIST"
      [] view.action = "self"     -> "VIEW_SELF"
      [] view.action = "retrieve" -> "VIEW"
      [] OTHER                    -> None

LambdaScope(view) ==
    CASE view.basename = "function" /\ view.action = "list"     -> "LIST"
      [] view.basename = "function" /\ view.action = "retrieve" -> "VIEW"
      [] view.basename = "function" /\ view.action = "call"     -> "CALL_ONLINE"
      [] view.basename = "request" /\ view.action = "create"    -> "CALL_OFFLINE"
      [] view.basename = "request" /\ view.action = "list"      -> "CALL_OFFLINE"
      [] view.basename = "request" /\ view.action = "retrieve"  -> "CALL_OFFLINE"
      [] view.basename = "request" /\ view.action = "destroy"   -> "CALL_OFFLINE"
      [] OTHER                                                  -> None

OrganizationScope(view) ==
    CASE view.action = "list"           -> "LIST"
      [] view.action = "create"         -> "CREATE"
      [] view.action = "destroy"        -> "DELETE"
      [] view.action = "partial_update" -> "UPDATE"
      [] view.action = "retrieve"       -> "VIEW"
      [] OTHER                          -> None

MembershipScope(view) ==
    CASE view.action = "list"           -> "LIST"
      [] view.action = "partial_update" -> "CHANGE_ROLE"
      [] view.action = "retrieve"       -> "VIEW"
      [] view.action = "delete"         -> "DELETE"
      [] OTHER                          -> None

scope(cls, view) ==
    CASE cls = "ServerPermission"       -> ServerScope(view)
      [] cls = "UserPermission"         -> UserScope(view)
      [] cls = "LambdaPermission"       -> LambdaScope(view)
      [] cls = "OrganizationPermission" -> OrganizationScope(view)
      [] cls = "MembershipPermission"   -> MembershipScope(view)
      [] OTHER                          -> None

\* self.url: settings.IAM_OPA_DATA_URL + '/<path>/allow', kept as the path
\* and the endpoint.
UrlPath(cls) ==
    CASE cls = "ServerPermission"       -> "server"
      [] cls = "UserPermission"         -> "users"
      [] cls = "LambdaPermission"       -> "lambda"
      [] cls = "OrganizationPermission" -> "organizations"
      [] cls = "MembershipPermission"   -> "memberships"
      [] OTHER                          -> None

url(cls) == [path |-> UrlPath(cls), endpoint |-> "allow"]

\* payload['input']['resource']: set by the User, Organization and Membership
\* evaluators when view.detail; "absent" is a payload without the key.  The
\* resource describes obj; OrganizationPermission.resource is None without obj.
DetailTestDropped_resource(cls, view, obj) ==
    IF cls \in {"UserPermission", "OrganizationPermission",
                "MembershipPermission"}
    THEN obj
    ELSE "absent"

resource(cls, view, obj) ==
    IF cls \in {"UserPermission", "OrganizationPermission",
                "MembershipPermission"} /\ view.detail
    THEN obj
    ELSE "absent"

\* cls(request, view, obj): OpenPolicyAgentPermission.__init__ and the
\* subclass's __init__.
NewPermission(cls, org, view, obj) ==
    [ cls     |-> cls,
      obj     |-> obj,
      url     |-> url(cls),
      payload |-> [ organization |-> org,
                    scope        |-> scope(cls, view),
                    resource     |-> resource(cls, view, obj) ] ]

AppendedTwice_create(cls, org, view, obj) ==
    IF Applicable(cls, view)
    THEN << NewPermission(cls, org, view, obj),
            NewPermission(cls, org, view, obj) >>
    ELSE << >>

\* cls.create(request, view, obj): a list of zero or one evaluator.
create(cls, org, view, obj) ==
    IF Applicable(cls, view)
    THEN << NewPermission(cls, org, view, obj) >>
    ELSE << >>

\* The loop of check_permission: permissions.extend(perm.create(...)) over
\* the subclasses from the i-th on.
RECURSIVE ExtendFrom(_, _, _, _)
ExtendFrom(i, org, view, obj) ==
    IF i > Len(Subclasses)
    THEN << >>
    ELSE create(Subclasses[i], org, view, obj)
         \o ExtendFrom(i + 1, org, view, obj)

SubclassesTwice_CreatePermissions(org, view, obj) ==
    ExtendFrom(1, org, view, obj) \o ExtendFrom(1, org, view, obj)

CreatePermissions(org, view, obj) == ExtendFrom(1, org, view, obj)

----------------------------------------------------------------------------
(* The answers of the policy service to POST .../allow.                    *)

\* Response bodies: not JSON, JSON without "result", or a "result" that is
\* true, false, a non-empty string, a number or a list.
AllowBodies == {"notjson", "noresult", "true", "false", "str", "num", "list"}

AllowResponses ==
    [transport : {"unreachable", "timeout"}, status : {0}, body : {"notjson"}]
    \cup [transport : {"ok"}, status : {200, 500}, body : AllowBodies]

\* The outcome of a Python call: a value or a raised exception.
Return(v) == [exc |-> "none", val |-> v]
Raise(e) == [exc |-> e, val |-> FALSE]

\* requests.post(...): raises when the service is unreachable or times out;
\* a non-success status is an ordinary response (no raise_for_status).
requests_post(resp) ==
    CASE resp.transport = "unreachable" -> Raise("ConnectionError")
      [] resp.transport = "timeout"     -> Raise("Timeout")
      [] OTHER                          -> Return(TRUE)

\* bool(perm): __bool__ posts the payload and returns r.json()['result'];
\* Python raises TypeError when __bool__ returns a non-bool.
IgnoreType__bool__(resp) ==
    IF requests_post(resp).exc # "none" THEN requests_post(resp)
    ELSE CASE resp.body = "notjson"  -> Raise("JSONDecodeError")
           [] resp.body = "noresult" -> Raise("KeyError")
           [] resp.body = "false"    -> Return(FALSE)
           [] OTHER                  -> Return(TRUE)

__bool__(resp) ==
    IF requests_post(resp).exc # "none" THEN requests_post(resp)
    ELSE CASE resp.body = "notjson"  -> Raise("JSONDecodeError")
           [] resp.body = "noresult" -> Raise("KeyError")
           [] resp.body = "true"     -> Return(TRUE)
           [] resp.body = "false"    -> Return(FALSE)
           [] OTHER                  -> Raise("TypeError")

\* all(permissions) after the truth value of one element: go on to the next
\* element, or return False.
AnyDenyIgnored(truth) == "continue"

all_step(truth) == IF truth THEN "continue" ELSE "return_false"

----------------------------------------------------------------------------
(* Records, predicate tokens and Q objects of the filter path.             *)

\* The rows of the table a queryset ranges over: two attributes.
Records == [owner_id : {7, 8}, shared : {0, 1}]

\* The querysets filter() is called with: any set of rows.
QuerySets == SUBSET Records

\* The keyword arguments of a predicate token: a mapping field -> value, kept
\* as a set of pairs with one value per field; {} is the empty mapping.
Kwargs == SUBSET {<<"owner_id", 7>>, <<"shared", 1>>}

\* A token of the 'result' array: a string or a mapping.
StrTokens == {"&", "|", "~", "^"}

Tokens == [str : StrTokens] \cup [kw : Kwargs]

TokenSeqs == UNION {[1..n -> Tokens] : n \in 0..MaxTokens}

isinstance_str(token) == "str" \in DOMAIN token

\* Values on the stack qobjects: a Q leaf (Q(**kwargs), Q() when kwargs is
\* empty), a Q node joining two Q objects, or a Python bool.
Q(kw) == [k |-> "leaf", kw |-> kw]

QNode(conn, first, second) == [k |-> conn, first |-> first, second |-> second]

PyBool(b) == [k |-> "bool", v |-> b]

IsQ(x) == x.k # "bool"

\* bool(q) of a Q object (django.utils.tree.Node.__bool__): it has children.
QTruth(q) == q.k # "leaf" \/ q.kw # {}

\* Q._combine(self, other, conn) behind Q.__and__ and Q.__or__: TypeError
\* unless other is a Q; an empty Q on either side is ignored; otherwise a node
\* with the children self, other in that order.
Q_combine(self, other, conn) ==
    IF ~IsQ(other) THEN Raise("TypeError")
    ELSE IF ~QTruth(other) THEN Return(self)
    ELSE IF ~QTruth(self) THEN Return(other)
    ELSE Return(QNode(conn, self, other))

\* operator.and_(a, b) and operator.or_(a, b): a & b, a | b.  Two bools give
\* a bool; a Q on the left combines; a bool on the left of a Q is a
\* TypeError (Q has no reflected operators).
operator_and(a, b) ==
    IF IsQ(a) THEN Q_combine(a, b, "AND")
    ELSE IF IsQ(b) THEN Raise("TypeError")
    ELSE Return(PyBool(a.v /\ b.v))

operator_or(a, b) ==
    IF IsQ(a) THEN Q_combine(a, b, "OR")
    ELSE IF IsQ(b) THEN Raise("TypeError")
    ELSE Return(PyBool(a.v \/ b.v))

\* operator.not_(a): the Python "not a", a bool from the truth value of a.
operator_not(a) ==
    IF IsQ(a) THEN Return(PyBool(~QTruth(a))) ELSE Return(PyBool(~a.v))

\* Does the record satisfy the Q object (the rows queryset.filter(q) keeps)?
RECURSIVE QMatches(_, _)
QMatches(q, rec) ==
    CASE q.k = "leaf" -> \A p \in q.kw : rec[p[1]] = p[2]
      [] q.k = "AND"  -> QMatches(q.first, rec) /\ QMatches(q.second, rec)
      [] q.k = "OR"   -> QMatches(q.first, rec) \/ QMatches(q.second, rec)

\* queryset.filter(x): the rows satisfying a Q; a positional argument that is
\* not a Q (a bool) is a TypeError when the query is built.
queryset_filter(queryset, x) ==
    IF IsQ(x) THEN Return({rec \in queryset : QMatches(x, rec)})
    ELSE Raise("TypeError")

Top(st) == st[Len(st)]
Pop(st) == SubSeq(st, 1, Len(st) - 1)

\* ops_dict[token](val1, val2) for a binary token; an unknown string is a
\* KeyError of the dict lookup.
UnknownAsOr_ops_dict_binary(str, x, y) ==
    CASE str = "&" -> operator_and(x, y)
      [] OTHER     -> operator_or(x, y)

ops_dict_binary(str, x, y) ==
    CASE str = "&" -> operator_and(x, y)
      [] str = "|" -> operator_or(x, y)
      [] OTHER     -> Raise("KeyError")

EmptyPopIgnored_TokenStep(st, token) ==
    IF isinstance_str(token)
    THEN IF st = << >> THEN Return(st)
         ELSE LET val1 == Top(st)
                  st1  == Pop(st)
              IN  IF token.str = "~"
                  THEN LET r == operator_not(val1)
                       IN  IF r.exc # "none" THEN r
                           ELSE Return(Append(st1, r.val))
                  ELSE IF st1 = << >> THEN Return(st)
                       ELSE LET val2 == Top(st1)
                                st2  == Pop(st1)
                                r    == ops_dict_binary(token.str, val1, val2)
                            IN  IF r.exc # "none" THEN r
                                ELSE Return(Append(st2, r.val))
    ELSE Return(Append(st, Q(token.kw)))

\* One round of the token loop on the stack qobjects; the value is the new
\* stack.  list.pop() of an empty list is an IndexError.
SwappedTokenStep(st, token) ==
    IF isinstance_str(token)
    THEN IF st = << >> THEN Raise("IndexError")
         ELSE LET val1 == Top(st)
                  st1  == Pop(st)
              IN  IF token.str = "~"
                  THEN LET r == operator_not(val1)
                       IN  IF r.exc # "none" THEN r
                           ELSE Return(Append(st1, r.val))
                  ELSE IF st1 = << >> THEN Raise("IndexError")
                       ELSE LET val2 == Top(st1)
                                st2  == Pop(st1)
                                r    == ops_dict_binary(token.str, val2, val1)
                            IN  IF r.exc # "none" THEN r
                                ELSE Return(Append(st2, r.val))
    ELSE Return(Append(st, Q(token.kw)))

TokenStep(st, token) ==
    IF isinstance_str(token)
    THEN IF st = << >> THEN Raise("IndexError")
         ELSE LET val1 == Top(st)
                  st1  == Pop(st)
              IN  IF token.str = "~"
                  THEN LET r == operator_not(val1)
                       IN  IF r.exc # "none" THEN r
                           ELSE Return(Append(st1, r.val))
                  ELSE IF st1 = << >> THEN Raise("IndexError")
                       ELSE LET val2 == Top(st1)
                                st2  == Pop(st1)
                                r    == ops_dict_binary(token.str, val1, val2)
                            IN  IF r.exc # "none" THEN r
                                ELSE Return(Append(st2, r.val))
    ELSE Return(Append(st, Q(token.kw)))

\* After the loop: assert len(qobjects) == 1 on a non-empty stack, Q() on an
\* empty one, then queryset.filter(qobjects[0]).
FirstNodeOnly(st, queryset) ==
    IF st # << >>
    THEN queryset_filter(queryset, st[1])
    ELSE queryset_filter(queryset, Q({}))

EmptyStackRejected(st, queryset) ==
    IF st # << >>
    THEN IF Len(st) # 1 THEN Raise("AssertionError")
         ELSE queryset_filter(queryset, st[1])
    ELSE Raise("IndexError")

FilterReturn(st, queryset) ==
    IF st # << >>
    THEN IF Len(st) # 1 THEN Raise("AssertionError")
         ELSE queryset_filter(queryset, st[1])
    ELSE queryset_filter(queryset, Q({}))

\* The answers of the policy service to POST .../filter.
FilterResponses ==
    [transport : {"unreachable", "timeout"}, status : {0},
     body : {[kind |-> "notjson", result |-> << >>]}]
    \cup [transport : {"ok"}, status : {200, 500},
          body : {[kind |-> "notjson", result |-> << >>],
                  [kind |-> "noresult", result |-> << >>],
                  [kind |-> "result", result |-> << >>]}]
    \cup [transport : {"ok"}, status : {200},
          body : [kind : {"result"}, result : TokenSeqs \ {<< >>}]]

\* r.json()['result'] on the filter path.
json_result(resp) ==
    IF requests_post(resp).exc # "none" THEN requests_post(resp)
    ELSE CASE resp.body.kind = "notjson"  -> Raise("JSONDecodeError")
           [] resp.body.kind = "noresult" -> Raise("KeyError")
           [] OTHER                       -> Return(resp.body.result)

\* self.url.replace('/allow', '/filter')
filter_url(u) == [path |-> u.path, endpoint |-> "filter"]

----------------------------------------------------------------------------
(* State.                                                                  *)

VARIABLES
    pc,          \* position of the request: "idle", "all" (inside
                 \* all(permissions)), "waiting" (__bool__ blocked in post),
                 \* "returned", "fwaiting" (filter blocked in post), "floop"
                 \* (token loop), "fdone"
    hook,        \* entry point running or last run: "none",
                 \* "has_permission", "has_object_permission", "filter"
    org,         \* request.iam_context['organization']
    view,        \* the view of the request
    obj,         \* the obj argument of check_permission
    permissions, \* the list built by check_permission (or <<self>> of filter)
    idx,         \* index of the element all() tests next
    calls,       \* the outbound requests made for this request, in order
    responses,   \* the answers received, in order
    outcome,     \* "none", "allow", "deny", "raised" (an exception left the
                 \* entry point), "filtered" (filter returned a queryset)
    raised,      \* the exception that left the entry point, or "none"
    queryset,    \* the queryset argument of filter
    tokens,      \* r.json()['result'] of the filter response
    pos,         \* index of the token the loop handles next
    qobjects,    \* the construction stack of filter
    fresult      \* the rows of the queryset filter returned

vars ==
    << pc, hook, org, view, obj, permissions, idx, calls, responses, outcome,
       raised, queryset, tokens, pos, qobjects, fresult >>

gateVars == << org, view, obj, permissions, idx, calls, responses >>

filterVars == << queryset, tokens, pos, qobjects, fresult >>

NoView == [basename |-> None, action |-> None, detail |-> FALSE]

Init ==
    /\ pc = "idle"
    /\ hook = "none"
    /\ org = None
    /\ view = NoView
    /\ obj = None
    /\ permissions = << >>
    /\ idx = 1
    /\ calls = << >>
    /\ responses = << >>
    /\ outcome = "none"
    /\ raised = "none"
    /\ queryset = {}
    /\ tokens = << >>
    /\ pos = 1
    /\ qobjects = << >>
    /\ fresult = {}

----------------------------------------------------------------------------
(* PolicyEnforcer.                                                         *)

\* check_permission(request, view, obj) up to the call of all(): the list of
\* evaluators is built.
check_permission(o, v, ob) ==
    /\ permissions' = CreatePermissions(o, v, ob)
    /\ idx' = 1
    /\ pc' = "all"
    /\ outcome' = "none"

\* has_permission(request, view): a detail view is allowed at once, a
\* non-detail view runs check_permission with obj None.
DetailIgnored_has_permission(o, v) ==
    /\ pc = "idle"
    /\ hook' = "has_permission"
    /\ org' = o
    /\ view' = v
    /\ obj' = None
    /\ check_permission(o, v, None)
    /\ UNCHANGED << calls, responses, raised >>
    /\ UNCHANGED filterVars

has_permission(o, v) ==
    /\ pc = "idle"
    /\ hook' = "has_permission"
    /\ org' = o
    /\ view' = v
    /\ obj' = None
    /\ IF ~v.detail
       THEN check_permission(o, v, None)
       ELSE /\ outcome' = "allow"
            /\ pc' = "returned"
            /\ UNCHANGED << permissions, idx >>
    /\ UNCHANGED << calls, responses, raised >>
    /\ UNCHANGED filterVars

\* has_object_permission(request, view, obj): called by the framework for a
\* detail view after has_permission allowed and the object was resolved.
has_object_permission(ob) ==
    /\ pc = "returned"
    /\ hook = "has_permission"
    /\ view.detail
    /\ outcome = "allow"
    /\ hook' = "has_object_permission"
    /\ obj' = ob
    /\ check_permission(org, view, ob)
    /\ UNCHANGED << org, view, calls, responses, raised >>
    /\ UNCHANGED filterVars

\* all(permissions) tests the next element: bool(perm) enters __bool__, which
\* posts self.payload to self.url and blocks for the answer.
BoolPost ==
    /\ pc = "all"
    /\ idx <= Len(permissions)
    /\ calls' = Append(calls, [url     |-> permissions[idx].url,
                               payload |-> permissions[idx].payload])
    /\ pc' = "waiting"
    /\ UNCHANGED << hook, org, view, obj, permissions, idx, responses,
                    outcome, raised >>
    /\ UNCHANGED filterVars

\* The answer arrives (or the post fails): __bool__ returns or raises, and
\* all() goes on, returns False, or the exception leaves check_permission.
BoolAnswer(resp) ==
    /\ pc = "waiting"
    /\ responses' = Append(responses, resp)
    /\ LET r == __bool__(resp)
       IN  IF r.exc # "none"
           THEN /\ outcome' = "raised"
                /\ raised' = r.exc
                /\ pc' = "returned"
                /\ idx' = idx
           ELSE IF all_step(r.val) = "continue"
                THEN /\ idx' = idx + 1
                     /\ pc' = "all"
                     /\ UNCHANGED << outcome, raised >>
                ELSE /\ outcome' = "deny"
                     /\ pc' = "returned"
                     /\ UNCHANGED << idx, raised >>
    /\ UNCHANGED << hook, org, view, obj, permissions, calls >>
    /\ UNCHANGED filterVars

\* all() has tested every element: it returns True.
AllReturnTrue ==
    /\ pc = "all"
    /\ idx > Len(permissions)
    /\ outcome' = "allow"
    /\ pc' = "returned"
    /\ UNCHANGED << hook, org, view, obj, permissions, idx, calls, responses,
                    raised >>
    /\ UNCHANGED filterVars

----------------------------------------------------------------------------
(* OpenPolicyAgentPermission.filter.                                       *)

\* A list view builds the evaluator of its resource kind and calls
\* self.filter(queryset): the payload is posted to the /filter url.
FilterPost(o, v, cls, qs) ==
    /\ pc = "idle"
    /\ v.action = "list"
    /\ ~v.detail
    /\ Applicable(cls, v)
    /\ hook' = "filter"
    /\ org' = o
    /\ view' = v
    /\ obj' = None
    /\ permissions' = << NewPermission(cls, o, v, None) >>
    /\ queryset' = qs
    /\ calls' = << [url     |-> filter_url(url(cls)),
                    payload |-> NewPermission(cls, o, v, None).payload] >>
    /\ pc' = "fwaiting"
    /\ UNCHANGED << idx, responses, outcome, raised, tokens, pos, qobjects,
                    fresult >>

\* The answer arrives: r.json()['result'] is the token sequence of the loop,
\* which starts with an empty stack.
FilterAnswer(resp) ==
    /\ pc = "fwaiting"
    /\ responses' = << resp >>
    /\ LET r == json_result(resp)
       IN  IF r.exc # "none"
           THEN /\ outcome' = "raised"
                /\ raised' = r.exc
                /\ pc' = "fdone"
                /\ UNCHANGED << tokens, pos, qobjects >>
           ELSE /\ tokens' = r.val
                /\ pos' = 1
                /\ qobjects' = << >>
                /\ pc' = "floop"
                /\ UNCHANGED << outcome, raised >>
    /\ UNCHANGED << hook, org, view, obj, permissions, idx, calls, queryset,
                    fresult >>

\* One round of the token loop.
FilterToken ==
    /\ pc = "floop"
    /\ pos <= Len(tokens)
    /\ LET r == TokenStep(qobjects, tokens[pos])
       IN  IF r.exc # "none"
           THEN /\ outcome' = "raised"
                /\ raised' = r.exc
                /\ pc' = "fdone"
                /\ UNCHANGED << pos, qobjects >>
           ELSE /\ qobjects' = r.val
                /\ pos' = pos + 1
                /\ UNCHANGED << pc, outcome, raised >>
    /\ UNCHANGED << hook, org, view, obj, permissions, idx, calls, responses,
                    queryset, tokens, fresult >>

\* The loop is over: the residual stack is checked and the filter applied.
FilterFinish ==
    /\ pc = "floop"
    /\ pos > Len(tokens)
    /\ LET r == FilterReturn(qobjects, queryset)
       IN  IF r.exc # "none"
           THEN /\ outcome' = "raised"
                /\ raised' = r.exc
                /\ UNCHANGED fresult
           ELSE /\ outcome' = "filtered"
                /\ fresult' = r.val
                /\ UNCHANGED raised
    /\ pc' = "fdone"
    /\ UNCHANGED << hook, org, view, obj, permissions, idx, calls, responses,
                    queryset, tokens, pos, qobjects >>

----------------------------------------------------------------------------

\* The request is over; the next one starts from scratch (evaluators are
\* built per request and discarded).
NextRequest ==
    /\ pc \in {"returned", "fdone"}
    /\ pc' = "idle"
    /\ hook' = "none"
    /\ org' = None
    /\ view' = NoView
    /\ obj' = None
    /\ permissions' = << >>
    /\ idx' = 1
    /\ calls' = << >>
    /\ responses' = << >>
    /\ outcome' = "none"
    /\ raised' = "none"
    /\ queryset' = {}
    /\ tokens' = << >>
    /\ pos' = 1
    /\ qobjects' = << >>
    /\ fresult' = {}

\* The classes a caller can build: the members of Subclasses.
Classes == {Subclasses[i] : i \in DOMAIN Subclasses}

Next ==
    \/ /\ pc = "idle"
       /\ \E o \in Organizations, v \in Views : has_permission(o, v)
    \/ /\ pc = "returned"
       /\ \E ob \in Objects : has_object_permission(ob)
    \/ BoolPost
    \/ /\ pc = "waiting"
       /\ \E resp \in AllowResponses : BoolAnswer(resp)
    \/ AllReturnTrue
    \/ /\ pc = "idle"
       /\ \E o \in Organizations, v \in Views, cls \in Classes,
             qs \in QuerySets : FilterPost(o, v, cls, qs)
    \/ /\ pc = "fwaiting"
       /\ \E resp \in FilterResponses : FilterAnswer(resp)
    \/ FilterToken
    \/ FilterFinish
    \/ NextRequest

Spec == Init /\ [][Next]_vars

\* The steps the program takes on its own are taken eventually: the loops of
\* all() and of filter go on and return.  Nothing obliges the policy service
\* to answer a post, and requests.post is called without a timeout, so the
\* answers (BoolAnswer, FilterAnswer) carry no fairness; neither does the
\* arrival of requests.
FairSpec ==
    /\ Spec
    /\ WF_vars(BoolPost)
    /\ WF_vars(AllReturnTrue)
    /\ WF_vars(FilterToken)
    /\ WF_vars(FilterFinish)

----------------------------------------------------------------------------
(* Vocabulary of the properties.                                           *)

GateHooks == {"has_permission", "has_object_permission"}

\* check_permission ran (or runs) in the current entry point.
RanCheck ==
    \/ hook = "has_object_permission"
    \/ hook = "has_permission" /\ ~view.detail

\* The answer is a transport failure: unreachable, timeout, non-success status.
TransportFailure(resp) == resp.transport # "ok" \/ resp.status # 200

\* A record satisfies a predicate token: all its key/value pairs match.
Satisfies(kw, rec) == \A p \in kw : rec[p[1]] = p[2]

\* Evaluation by hand of a postfix sequence on a record: the stack of truth
\* values after the first n tokens, operands in token order.
RECURSIVE HandStack(_, _, _)
HandStack(toks, n, rec) ==
    IF n = 0 THEN << >>
    ELSE LET st == HandStack(toks, n - 1, rec)
             t  == toks[n]
         IN  IF ~isinstance_str(t) THEN Append(st, Satisfies(t.kw, rec))
             ELSE IF t.str = "~" THEN Append(Pop(st), ~Top(st))
             ELSE IF t.str = "&"
                  THEN Append(Pop(Pop(st)), Top(Pop(st)) /\ Top(st))
                  ELSE Append(Pop(Pop(st)), Top(Pop(st)) \/ Top(st))

\* Stack depth of a postfix sequence after n tokens, -1 once an operator
\* lacked an operand.
RECURSIVE Depth(_, _)
Depth(toks, n) ==
    IF n = 0 THEN 0
    ELSE LET d == Depth(toks, n - 1)
             t == toks[n]
         IN  IF d < 0 THEN -1
             ELSE IF ~isinstance_str(t) THEN d + 1
             ELSE IF t.str = "~" THEN (IF d >= 1 THEN d ELSE -1)
             ELSE IF d >= 2 THEN d - 1 ELSE -1

\* A well-formed postfix expression over '&', '|', '~' and predicate tokens.
WellFormed(toks) ==
    /\ \A n \in DOMAIN toks :
          isinstance_str(toks[n]) => toks[n].str \in {"&", "|", "~"}
    /\ Depth(toks, Len(toks)) = 1

\* filter received a token sequence (the post and the body were fine).
GotTokens ==
    /\ hook = "filter"
    /\ Len(responses) = 1
    /\ json_result(responses[1]).exc = "none"

\* The token loop consumed every token without raising.
Consumed == GotTokens /\ pc \in {"floop", "fdone"} /\ pos > Len(tokens)

----------------------------------------------------------------------------
(* C1: check_permission returns allow if and only if every evaluator       *)
(* returned by some create() individually returned allow; one deny forces  *)
(* deny; with no applicable evaluator the result is allow.                 *)
C1_AllowIffAllAllow ==
    (pc = "returned" /\ RanCheck) =>
        /\ outcome = "allow" <=>
              \A i \in 1..Len(permissions) :
                  /\ i <= Len(responses)
                  /\ responses[i].transport = "ok"
                  /\ responses[i].body = "true"
        /\ (\E i \in 1..Len(responses) :
               responses[i].transport = "ok" /\ responses[i].body = "false")
           => outcome = "deny"
        /\ permissions = << >> => outcome = "allow"

C1_Witness ==
    /\ pc = "returned"
    /\ RanCheck
    /\ Len(permissions) = 1
    /\ responses[1].body = "false"
    /\ outcome = "deny"

(* C2: when the decision call of an applicable evaluator fails in          *)
(* transport, has_object_permission returns deny as a value: no exception  *)
(* leaves the gate and the failure is never turned into allow.             *)
C2_TransportFailureIsDeny ==
    ( /\ pc = "returned"
      /\ hook = "has_object_permission"
      /\ \E i \in 1..Len(responses) : TransportFailure(responses[i]) )
    => (outcome = "deny" /\ raised = "none")

(* C3: the decision call yields allow only for a body whose result is the  *)
(* boolean true; a missing or non-boolean result makes the call raise and  *)
(* the gate does not report allow.                                         *)
C3_AllowOnlyOnBooleanTrue ==
    hook \in GateHooks =>
        /\ \A i \in 1..Len(responses) :
              (i < Len(responses) \/ outcome = "allow")
              => responses[i].body = "true"
        /\ \A i \in 1..Len(responses) :
              ( /\ responses[i].transport = "ok"
                /\ responses[i].body \in {"noresult", "str", "num", "list"} )
              => (pc = "returned" /\ outcome = "raised"
                  /\ raised \in {"KeyError", "TypeError"})

C3_Witness ==
    /\ hook \in GateHooks
    /\ Len(responses) = 1
    /\ responses[1].body = "str"
    /\ outcome = "raised"
    /\ raised = "TypeError"

(* C4: an applicable evaluator whose scope resolves to None is skipped: no *)
(* decision call is made for it and the aggregate is the AND of the        *)
(* decisions of the remaining evaluators.                                  *)
C4_NoScopeEvaluatorSkipped ==
    hook \in GateHooks =>
        /\ \A i \in 1..Len(calls) : calls[i].payload.scope # None
        /\ (pc = "returned" /\ RanCheck) =>
              ( outcome = "allow" <=>
                  \A i \in 1..Len(permissions) :
                      permissions[i].payload.scope # None
                      => ( /\ i <= Len(responses)
                           /\ responses[i].transport = "ok"
                           /\ responses[i].body = "true" ) )

(* C5: has_permission on a detail view returns allow without building or   *)
(* calling an evaluator and without an outbound request; the aggregation   *)
(* runs in the later has_object_permission with the resolved object given  *)
(* to every evaluator; on a non-detail view has_permission runs it with a  *)
(* null object.                                                            *)
C5_DetailDeferredToObjectHook ==
    /\ (hook = "has_permission" /\ view.detail) =>
          /\ pc = "returned"
          /\ outcome = "allow"
          /\ permissions = << >>
          /\ calls = << >>
    /\ (hook = "has_permission" /\ ~view.detail) =>
          /\ pc \in {"all", "waiting", "returned"}
          /\ Len(permissions) = Cardinality({c \in Classes : Applicable(c, view)})
          /\ \A i \in 1..Len(permissions) : permissions[i].obj = None
    /\ hook = "has_object_permission" =>
          /\ view.detail
          /\ obj \in Objects
          /\ pc \in {"all", "waiting", "returned"}
          /\ Len(permissions) = Cardinality({c \in Classes : Applicable(c, view)})
          /\ \A i \in 1..Len(permissions) : permissions[i].obj = obj

C5_Witness ==
    /\ hook = "has_object_permission"
    /\ pc = "returned"
    /\ Len(calls) = 1
    /\ permissions[1].obj = obj
    /\ calls[1].payload.resource = obj

(* C6: for every well-formed postfix sequence over '&', '|', '~' and       *)
(* predicate tokens, the predicate filter builds has the truth value of    *)
(* the expression evaluated by hand, for every record.                     *)
C6_TruthTablePreserved ==
    (pc = "fdone" /\ GotTokens /\ WellFormed(tokens)) =>
        /\ outcome = "filtered"
        /\ fresult =
              {rec \in queryset : Top(HandStack(tokens, Len(tokens), rec))}

(* C7, as claimed: on an AND or OR token the first node popped is the      *)
(* right operand and the second node popped the left one: the pushed node  *)
(* is AND(left, right) or OR(left, right) in token order.                  *)
BinaryStepOnNodes ==
    /\ pc = "floop"
    /\ pos <= Len(tokens)
    /\ isinstance_str(tokens[pos])
    /\ tokens[pos].str \in {"&", "|"}
    /\ Len(qobjects) >= 2
    /\ IsQ(Top(qobjects)) /\ QTruth(Top(qobjects))
    /\ IsQ(Top(Pop(qobjects))) /\ QTruth(Top(Pop(qobjects)))

Connector(str) == IF str = "&" THEN "AND" ELSE "OR"

C8_TwoPredicateFilter ==
    (pc = "fdone" /\ GotTokens) =>
        /\ ( /\ Len(tokens) = 3
             /\ ~isinstance_str(tokens[1])
             /\ ~isinstance_str(tokens[2])
             /\ isinstance_str(tokens[3])
             /\ tokens[3].str \in {"&", "|"} )
           => ( /\ outcome = "filtered"
                /\ fresult =
                      {rec \in queryset :
                          IF tokens[3].str = "|"
                          THEN Satisfies(tokens[1].kw, rec)
                               \/ Satisfies(tokens[2].kw, rec)
                          ELSE Satisfies(tokens[1].kw, rec)
                               /\ Satisfies(tokens[2].kw, rec)} )
        /\ (Len(tokens) = 1 /\ ~isinstance_str(tokens[1]))
           => ( /\ outcome = "filtered"
                /\ fresult =
                      {rec \in queryset : Satisfies(tokens[1].kw, rec)} )

(* C9: on an empty token sequence filter applies the always-true           *)
(* predicate: the returned query holds every record of the queryset and    *)
(* nothing is raised.                                                      *)
C9_EmptySequenceUnrestricted ==
    (pc = "fdone" /\ GotTokens /\ tokens = << >>) =>
        /\ outcome = "filtered"
        /\ raised = "none"
        /\ fresult = queryset

C9_Witness ==
    /\ pc = "fdone"
    /\ GotTokens
    /\ tokens = << >>
    /\ queryset = Records
    /\ fresult = Records

(* C10: a token sequence that leaves more than one node on the stack after *)
(* full consumption makes filter raise; no filtered query is returned, in  *)
(* particular not the one of a single residual node.                       *)
C10_ResidualStackRaises ==
    (pc = "fdone" /\ Consumed /\ Len(qobjects) > 1) =>
        /\ outcome = "raised"
        /\ raised = "AssertionError"
        /\ fresult = {}

C10_Witness ==
    /\ pc = "fdone"
    /\ Consumed
    /\ Len(qobjects) = 2
    /\ IsQ(qobjects[1]) /\ QTruth(qobjects[1])
    /\ queryset = Records
    /\ raised = "AssertionError"

(* C11: a token sequence holding a string token other than '&', '|', '~'   *)
(* makes filter raise, whatever the stack holds when the token is reached: *)
(* no filtered query is returned and the loop never gets past the token    *)
(* (it is neither taken for a known operator nor skipped).                 *)
UnknownAt(n) ==
    /\ n \in DOMAIN tokens
    /\ isinstance_str(tokens[n])
    /\ tokens[n].str \notin {"&", "|", "~"}

C11_UnknownTokenRaises ==
    (GotTokens /\ pc \in {"floop", "fdone"}) =>
        \A n \in DOMAIN tokens :
            UnknownAt(n) =>
                /\ pos <= n
                /\ pc = "fdone" =>
                      /\ outcome = "raised"
                      /\ raised \in {"IndexError", "KeyError", "TypeError"}
                      /\ fresult = {}

C11_Witness ==
    /\ pc = "fdone"
    /\ GotTokens
    /\ Len(tokens) = 3
    /\ UnknownAt(3)
    /\ pos = 3
    /\ Len(qobjects) = 2
    /\ queryset = Records
    /\ raised = "KeyError"

(* C12: when the request to the /filter endpoint fails in transport        *)
(* (unreachable, timeout, non-success status) or the body has no result    *)
(* field, filter raises before any predicate is applied and returns        *)
(* neither the unrestricted queryset nor a filtered one.                   *)
C12_FilterFailureAborts ==
    ( /\ pc = "fdone"
      /\ hook = "filter"
      /\ Len(responses) = 1
      /\ \/ TransportFailure(responses[1])
         \/ responses[1].body.kind = "noresult" )
    => ( /\ outcome = "raised"
         /\ qobjects = << >>
         /\ fresult = {} )

C14_InvocationEnds ==
    (pc \in {"all", "waiting", "fwaiting", "floop"})
        ~> (pc \in {"returned", "fdone"})

(* C15: for every evaluator variant and every operation that reaches the   *)
(* policy service, the payload sent has a resource field if and only if    *)
(* the operation is detail-level.                                          *)
C15_ResourceIffDetail ==
    \A i \in 1..Len(calls) :
        (calls[i].payload.resource # "absent") <=> view.detail

(* C16: for a caller without organization the payload is built without     *)
(* error and its auth.organization is null; for the collection action list *)
(* on resource kind user the scope is LIST and there is no resource field. *)
C16_NoOrganizationUserList ==
    hook # "none" =>
        /\ org = None =>
              /\ \A i \in 1..Len(permissions) :
                    permissions[i].payload.organization = None
              /\ \A i \in 1..Len(calls) :
                    calls[i].payload.organization = None
              /\ calls = << >> => outcome # "raised"
        /\ ( /\ view.basename = "user"
             /\ view.action = "list"
             /\ ~view.detail )
           => /\ Len(permissions) = 1
              /\ permissions[1].cls = "UserPermission"
              /\ permissions[1].payload.scope = "LIST"
              /\ permissions[1].payload.resource = "absent"
              /\ \A i \in 1..Len(calls) :
                    /\ calls[i].payload.scope = "LIST"
                    /\ calls[i].payload.resource = "absent"

C16_Witness ==
    /\ hook = "has_permission"
    /\ org = None
    /\ view = [basename |-> "user", action |-> "list", detail |-> FALSE]
    /\ Len(calls) = 1
    /\ calls[1].url = [path |-> "users", endpoint |-> "allow"]
    /\ calls[1].payload =
          [organization |-> None, scope |-> "LIST", resource |-> "absent"]

(* C17: on a NOT token the translator pops one node and pushes its         *)
(* negation: the depth of the stack is unchanged, the pushed element is    *)
(* again a predicate (an operand of later operators, or the final filter)  *)
(* and it matches exactly the records the popped node does not match.      *)
NotStepOnNode ==
    /\ pc = "floop"
    /\ pos <= Len(tokens)
    /\ isinstance_str(tokens[pos])
    /\ tokens[pos].str = "~"
    /\ Len(qobjects) >= 1
    /\ IsQ(Top(qobjects))

C17_NotPushesNegation ==
    [][ NotStepOnNode =>
          ( /\ pc' = "floop"
            /\ Len(qobjects') = Len(qobjects)
            /\ Pop(qobjects') = Pop(qobjects)
            /\ IsQ(Top(qobjects'))
            /\ \A rec \in Records :
                  QMatches(Top(qobjects'), rec)
                  <=> ~QMatches(Top(qobjects), rec) ) ]_vars

(* C18: the outcome of the aggregation (allow, deny or error) depends only *)
(* on the set of the individual results of the applicable evaluators, not  *)
(* on the order of their calls: a failed call dominates, then a deny.      *)
IndividualResult(resp) ==
    IF __bool__(resp).exc # "none" THEN "error"
    ELSE IF __bool__(resp).val THEN "allow" ELSE "deny"

Aggregate(results) ==
    IF "error" \in results THEN "raised"
    ELSE IF "deny" \in results THEN "deny"
    ELSE "allow"

C19_AtMostOneEvaluator ==
    hook \in GateHooks =>
        /\ Len(permissions) <= 1
        /\ Len(calls) <= 1
        /\ \A i \in 1..Len(permissions) :
              permissions[i].cls \in
                  {"ServerPermission", "UserPermission", "LambdaPermission",
                   "OrganizationPermission", "MembershipPermission"}
        /\ (hook = "has_permission" /\ view.detail) => calls = << >>
        /\ Cardinality({c \in Classes : Applicable(c, view)}) <= 1

C19_Witness ==
    /\ hook = "has_object_permission"
    /\ pc = "returned"
    /\ outcome = "allow"
    /\ view.basename = "request"
    /\ Len(permissions) = 1
    /\ permissions[1].cls = "LambdaPermission"
    /\ Len(calls) = 1

(* C20: after each processed token the depth of the stack is the number of *)
(* predicate tokens seen minus the number of binary tokens seen; a string  *)
(* token that arrives with fewer nodes on the stack than its arity (one    *)
(* for '~', two otherwise) makes filter raise at that token, and nothing   *)
(* is built from the missing operand.                                      *)
Seen(n, kind) ==
    Cardinality({m \in 1..n :
        CASE kind = "predicate" -> ~isinstance_str(tokens[m])
          [] kind = "binary"    -> isinstance_str(tokens[m])
                                   /\ tokens[m].str \in {"&", "|"}})

Arity(token) == IF token.str = "~" THEN 1 ELSE 2

Underflow ==
    /\ pos <= Len(tokens)
    /\ isinstance_str(tokens[pos])
    /\ Len(qobjects) < Arity(tokens[pos])

C20_DepthAndUnderflow ==
    /\ [] ( (GotTokens /\ pc \in {"floop", "fdone"}) =>
              /\ Len(qobjects) =
                    Seen(pos - 1, "predicate") - Seen(pos - 1, "binary")
              /\ (pc = "fdone" /\ Underflow) =>
                    /\ outcome = "raised"
                    /\ raised = "IndexError"
                    /\ fresult = {} )
    /\ [][ (pc = "floop" /\ Underflow) =>
              (pc' = "fdone" /\ pos' = pos /\ qobjects' = qobjects) ]_vars

C20_Witness ==
    /\ pc = "fdone"
    /\ GotTokens
    /\ Len(tokens) >= 2
    /\ pos = 2
    /\ ~isinstance_str(tokens[1])
    /\ isinstance_str(tokens[2])
    /\ tokens[2].str = "&"
    /\ Len(qobjects) = 1
    /\ raised = "IndexError"

====
